---- MODULE Spec2Model ----
(***************************************************************************)
(* wolwait: send Wake-on-LAN packets to a host and wait until a TCP port   *)
(* of that host accepts a connection (src/wolwait.cpp).                    *)
(*                                                                         *)
(* Strings are sequences of one-character strings; NUL is the terminator.  *)
(* Real time is counted in ticks, TicksPerSec ticks to the second;         *)
(* time(NULL) reports whole seconds only.                                  *)
(***************************************************************************)
EXTENDS Integers, Sequences, FiniteSets, TLC

(* ---------------- bounds of the model ---------------- *)

\* ticks per second of the real-time clock
TicksPerSec == 2

\* longest duration of one connect() call, in ticks
MaxProbeTicks == 3

\* longest time a sleep() overruns its argument, in ticks
MaxOversleep == 1

\* most wake packets sent in one run of the model
MaxSends == 4

(* ---------------- program constants ---------------- *)

EX_OK == 0

EX_USAGE == 64

EX_NOHOST == 68

EX_UNAVAILABLE == 69

EX_OSERR == 71

EX_TEMPFAIL == 75

EX_PROTOCOL == 76

WOL_PACKET_SIZE == 102

\* int timeout = 300;
DefaultTimeout == 300

\* int loop_wait = 5;
DefaultLoopWait == 5

\* const char *wol_host = "255.255.255.255";
DefaultWolHost == <<"2", "5", "5", ".", "2", "5", "5", ".", "2", "5", "5", ".", "2", "5", "5">>

\* const char *wol_port = "9";
DefaultWolPort == <<"9">>

\* value of a byte that was never written
Uninit == -1

\* the string terminator
NUL == "NUL"

(* ---------------- libc helpers ---------------- *)

Digits == {"0", "1", "2", "3", "4", "5", "6", "7", "8", "9"}

LowerHex == {"a", "b", "c", "d", "e", "f"}

UpperHex == {"A", "B", "C", "D", "E", "F"}

isdigit(c) == c \in Digits

isxdigit(c) == c \in Digits \cup LowerHex \cup UpperHex

DigitVal(c) ==
    CASE c = "0" -> 0 [] c = "1" -> 1 [] c = "2" -> 2 [] c = "3" -> 3
      [] c = "4" -> 4 [] c = "5" -> 5 [] c = "6" -> 6 [] c = "7" -> 7
      [] c = "8" -> 8 [] c = "9" -> 9

HexVal(c) ==
    CASE isdigit(c) -> DigitVal(c)
      [] c \in {"a", "A"} -> 10 [] c \in {"b", "B"} -> 11
      [] c \in {"c", "C"} -> 12 [] c \in {"d", "D"} -> 13
      [] c \in {"e", "E"} -> 14 [] c \in {"f", "F"} -> 15

\* strchr(":-.", c) != NULL; strchr also finds the terminator of its string
strchr_sep(c) == c \in {":", "-", ".", NUL}

RECURSIVE AtoiDigits(_, _, _)
AtoiDigits(s, i, acc) ==
    IF i <= Len(s) /\ isdigit(s[i])
    THEN AtoiDigits(s, i + 1, acc * 10 + DigitVal(s[i]))
    ELSE acc

\* atoi: optional sign, then the leading decimal digits; 0 when there are none
atoi(s) ==
    IF Len(s) > 0 /\ s[1] = "-" THEN 0 - AtoiDigits(s, 2, 0)
    ELSE IF Len(s) > 0 /\ s[1] = "+" THEN AtoiDigits(s, 2, 0)
    ELSE AtoiDigits(s, 1, 0)

\* #define valid_port(port) (atoi(port) >= 1 && atoi(port) <= 65535)
valid_port(port) == atoi(port) >= 1 /\ atoi(port) <= 65535

\* a numeric service string is one getaddrinfo can translate without a lookup
NumericService(port) ==
    Len(port) > 0 /\ \A i \in 1..Len(port) : isdigit(port[i])

(* ---------------- parse_mac ---------------- *)

\* the character at 0-based offset p of a string laid out in memory mem;
\* memory past the modelled bytes reads as zero
CharAt(mem, p) == IF p + 1 <= Len(mem) THEN mem[p + 1] ELSE NUL

Max(a, b) == IF a >= b THEN a ELSE b

\* One pass of the for loop of parse_mac and the passes after it.
\*   mem  the bytes at and after the string argument
\*   i    loop index, p offset of the string pointer
\*   addr the output array, hi the highest offset read so far
RECURSIVE parse_mac_loop(_, _, _, _, _)
parse_mac_loop(mem, i, p, addr, hi) ==
    IF i = 6
    THEN [ok |-> CharAt(mem, p) = NUL, addr |-> addr, hi |-> Max(hi, p)]
    ELSE
      LET sep  == strchr_sep(CharAt(mem, p))
          skip == sep /\ isxdigit(CharAt(mem, p + 1))
          hi1  == IF sep THEN Max(hi, p + 1) ELSE Max(hi, p)
          q    == IF skip THEN p + 1 ELSE p
          d0   == isxdigit(CharAt(mem, q))
          d1   == d0 /\ isxdigit(CharAt(mem, q + 1))
          hi2  == IF d0 THEN Max(hi1, q + 1) ELSE Max(hi1, q)
      IN  IF d1
          THEN parse_mac_loop(mem, i + 1, q + 2,
                 [addr EXCEPT ![i + 1] =
                    16 * HexVal(CharAt(mem, q)) + HexVal(CharAt(mem, q + 1))],
                 hi2)
          ELSE IF d0
          THEN parse_mac_loop(mem, i + 1, q + 1,
                 [addr EXCEPT ![i + 1] = HexVal(CharAt(mem, q))], hi2)
          ELSE [ok |-> FALSE, addr |-> addr, hi |-> hi2]

parse_mac(addr, mem) == parse_mac_loop(mem, 0, 0, addr, 0)

(* ---------------- build_wol_packet ---------------- *)

\* memset(buf, v, n) / memcpy(buf + off, src, n) on a 1-based sequence
memset(buf, v, n) == [k \in 1..Len(buf) |-> IF k <= n THEN v ELSE buf[k]]

memcpy(buf, off, src, n) ==
    [k \in 1..Len(buf) |->
        IF k > off /\ k <= off + n THEN src[k - off] ELSE buf[k]]

RECURSIVE build_wol_loop(_, _, _)
build_wol_loop(buf, mac, i) ==
    IF i <= 16
    THEN build_wol_loop(memcpy(buf, i * 6, mac, 6), mac, i + 1)
    ELSE buf

\* a packet whose copy loop starts at index 0
build_wol_packet_from0(buf, mac) ==
    build_wol_loop(memset(buf, 255, 6), mac, 0)

build_wol_packet(buf, mac) == build_wol_loop(memset(buf, 255, 6), mac, 1)

(* ---------------- mac_from_dns ---------------- *)

\* The records of a DNS answer, from record i on: ns_parserr may fail on a
\* record; otherwise its text is parsed, tail being the bytes that lie after
\* the terminator of rec_str.c_str().
RECURSIVE mac_from_dns_loop(_, _, _, _)
mac_from_dns_loop(addr, recs, i, tail) ==
    IF i > Len(recs)
    THEN [status |-> EX_NOHOST, addr |-> addr]
    ELSE IF recs[i].err
    THEN [status |-> EX_PROTOCOL, addr |-> addr]
    ELSE LET r == parse_mac(addr, recs[i].txt \o <<NUL>> \o tail)
         IN  IF r.ok
             THEN [status |-> EX_OK, addr |-> r.addr]
             ELSE mac_from_dns_loop(r.addr, recs, i + 1, tail)

\* answer.kind: what res_search and ns_initparse made of the lookup
mac_from_dns(addr, answer, tail) ==
    CASE answer.kind = "no_address" -> [status |-> EX_NOHOST, addr |-> addr]
      [] answer.kind = "res_error"  -> [status |-> EX_UNAVAILABLE, addr |-> addr]
      [] answer.kind = "bad_msg"    -> [status |-> EX_PROTOCOL, addr |-> addr]
      [] OTHER -> mac_from_dns_loop(addr, answer.recs, 1, tail)

(* ---------------- inputs of the model ---------------- *)

\* arguments given to -w
TimeoutArgs == {<<"1">>, <<"3">>, <<"1", "0">>, <<"0">>, <<"-", "4">>}

\* arguments given to -d
DelayArgs == {<<"1">>, <<"2">>, <<"5">>, <<"x">>}

\* arguments given to -P
WolPortArgs == {<<"7">>, <<"0">>, <<"6", "5", "5", "3", "6">>}

\* arguments given to -A
AddrArgs == {<<"1", "0", ".", "0", ".", "0", ".", "9">>}

\* the <Hostname/IP> argument
HostArgs == {<<"1", "9", "2", ".", "0", ".", "2", ".", "1", "0">>}

\* the <Port> argument
PortArgs == {<<"2", "2">>, <<"0">>, <<"2", "2", "x">>}

\* the <MAC address> argument
MacArgs ==
    { <<"A", "A", ":", "B", "B", ":", "C", "C", ":", "D", "D", ":", "E", "E", ":", "F", "F">>,
      <<"0", "-", "1", ".", "2", ":", "3", "4", "5", "6", "7">>,
      <<"A", "A", ":", "B", "B", ":", "C", "C">>,
      <<"A", ":", "B", ":", "C">>,
      <<"z", "z">>,
      <<>> }

\* bytes that may lie in memory after the terminator of a string
MemTails == {<<>>, <<"d", "d", ":", "e", "e", ":", "f", "f">>}

\* what the resolver may answer to the TXT query
DnsAnswers ==
    { [kind |-> "no_address", recs |-> <<>>],
      [kind |-> "res_error", recs |-> <<>>],
      [kind |-> "bad_msg", recs |-> <<>>],
      [kind |-> "ok", recs |-> <<>>],
      [kind |-> "ok", recs |-> << [err |-> TRUE, txt |-> <<>>] >>],
      [kind |-> "ok", recs |->
         << [err |-> FALSE, txt |-> <<"v", "=", "1">>],
            [err |-> FALSE, txt |-> <<"1", "-", "2", "-", "3">>],
            [err |-> FALSE, txt |-> <<"0", "-", "1", ".", "2", ":", "3", "4", "5", "6", "7">>] >>] }

\* how many non-option arguments follow the options
ArgCounts == 0..4

\* real time, in ticks, at which the wait loop may start
StartTicks == {TicksPerSec, TicksPerSec + 1}

(* ---------------- state ---------------- *)

VARIABLES
    pc,           \* position in main
    timeout, loop_wait, use_dns, wol_host, wol_port, wol_direct,
    mac_a, host_a, port_a,
    dest_mac,     \* unsigned char dest_mac[6]
    wol_ai, test_ai,          \* "none" | "held" | "freed"
    wol_socket, tcp_socket,   \* "none" | "open" | "closed"
    begin, status, packet,
    clock,        \* real time in ticks
    start_clock,  \* real time at which begin was taken
    sends,        \* sendto calls that succeeded
    probes,       \* connect calls made
    unreach,      \* connect calls that failed
    sleeps,       \* sleep calls made
    sent,         \* the set of distinct datagrams sent
    exit_status,  \* value returned by main, -1 while running
    outcome,      \* which return statement ended the run
    net,          \* a resolver or socket call has been made
    tcp_failed,   \* a connect on tcp_socket has failed
    given_A, given_P,   \* the last -A and -P arguments, <<>> when not given
    wol_ep, test_ep,    \* <<host, port>> handed to the two getaddrinfo calls
    mac_ok, mac_hi,     \* result of parse_mac(dest_mac, mac_a), highest offset it read
    wall_off,     \* seconds the system clock has been set forward (+) or back (-)
    char_signed,  \* whether plain char is signed in this build
    sid_pc, sid_bin, sid_len,   \* sid2string: position, arguments
    sid_ret, sid_hi     \* sid2string: result, highest index of bin read

optv  == <<timeout, loop_wait, use_dns, wol_host, wol_port, wol_direct>>
argsv == <<mac_a, host_a, port_a>>
resv  == <<wol_ai, test_ai, wol_socket, tcp_socket>>
loopv == <<begin, status, packet, clock, start_clock>>
histv == <<sends, probes, unreach, sleeps, sent>>
exitv == <<exit_status, outcome>>
netv  == <<net, tcp_failed>>
givenv == <<given_A, given_P>>
epv   == <<wol_ep, test_ep>>
machv == <<mac_ok, mac_hi>>
sidv  == <<char_signed, sid_pc, sid_bin, sid_len, sid_ret, sid_hi>>
newv  == <<netv, givenv, epv, machv, wall_off, sidv>>
vars  == <<pc, optv, argsv, dest_mac, resv, loopv, histv, exitv, newv>>

\* time(NULL): whole seconds of the system clock, which is the real-time
\* clock plus whatever the system clock has been set forward or back
time(c) == c \div TicksPerSec + wall_off

Init ==
    /\ pc = "getopt"
    /\ timeout = DefaultTimeout
    /\ loop_wait = DefaultLoopWait
    /\ use_dns = FALSE
    /\ wol_host = DefaultWolHost
    /\ wol_port = DefaultWolPort
    /\ wol_direct = FALSE
    /\ mac_a = <<>> /\ host_a = <<>> /\ port_a = <<>>
    /\ dest_mac = [k \in 1..6 |-> Uninit]
    /\ wol_ai = "none" /\ test_ai = "none"
    /\ wol_socket = "none" /\ tcp_socket = "none"
    /\ begin = 0 /\ status = Uninit
    /\ packet = [k \in 1..WOL_PACKET_SIZE |-> Uninit]
    /\ clock = 0 /\ start_clock = 0
    /\ sends = 0 /\ probes = 0 /\ unreach = 0 /\ sleeps = 0 /\ sent = {}
    /\ exit_status = -1 /\ outcome = "running"
    /\ net = FALSE /\ tcp_failed = FALSE
    /\ given_A = <<>> /\ given_P = <<>>
    /\ wol_ep = <<>> /\ test_ep = <<>>
    /\ mac_ok = FALSE /\ mac_hi = 0
    /\ wall_off = 0
    /\ char_signed = FALSE
    /\ sid_pc = "unused" /\ sid_bin = <<>> /\ sid_len = 0
    /\ sid_ret = <<>> /\ sid_hi = -1

\* return code; from main
Return(code, why) ==
    /\ pc' = "exited"
    /\ exit_status' = code
    /\ outcome' = why

(* ---------------- option parsing, lines 169-219 ---------------- *)

\* arg == '?': an option getopt does not know
OptUnknown ==
    /\ pc = "getopt"
    /\ Return(0, "usage_option")
    /\ UNCHANGED <<optv, argsv, dest_mac, resv, loopv, histv>>
    /\ UNCHANGED newv

\* -w <timeout>
OptTimeout ==
    /\ pc = "getopt"
    /\ \E a \in TimeoutArgs :
         /\ timeout' = atoi(a)
         /\ IF atoi(a) <= 0
            THEN Return(EX_USAGE, "usage_timeout")
            ELSE UNCHANGED <<pc, exitv>>
    /\ UNCHANGED <<loop_wait, use_dns, wol_host, wol_port, wol_direct>>
    /\ UNCHANGED <<argsv, dest_mac, resv, loopv, histv>>
    /\ UNCHANGED newv

\* -f
OptForever ==
    /\ pc = "getopt"
    /\ timeout' = 0
    /\ UNCHANGED <<loop_wait, use_dns, wol_host, wol_port, wol_direct>>
    /\ UNCHANGED <<pc, argsv, dest_mac, resv, loopv, histv, exitv>>
    /\ UNCHANGED newv

\* -u
OptDirect ==
    /\ pc = "getopt"
    /\ wol_direct' = TRUE
    /\ UNCHANGED <<timeout, loop_wait, use_dns, wol_host, wol_port>>
    /\ UNCHANGED <<pc, argsv, dest_mac, resv, loopv, histv, exitv>>
    /\ UNCHANGED newv

\* -A <address>
OptAddress ==
    /\ pc = "getopt"
    /\ \E a \in AddrArgs : wol_host' = a
    /\ UNCHANGED <<timeout, loop_wait, use_dns, wol_port, wol_direct>>
    /\ UNCHANGED <<pc, argsv, dest_mac, resv, loopv, histv, exitv>>
    /\ given_A' = wol_host'
    /\ UNCHANGED <<given_P, netv, epv, machv, wall_off, sidv>>

\* -P <port>
OptPort ==
    /\ pc = "getopt"
    /\ \E a \in WolPortArgs :
         IF ~valid_port(a)
         THEN Return(1, "usage_wol_port") /\ UNCHANGED <<wol_port, given_P>>
         ELSE wol_port' = a /\ given_P' = a /\ UNCHANGED <<pc, exitv>>
    /\ UNCHANGED <<timeout, loop_wait, use_dns, wol_host, wol_direct>>
    /\ UNCHANGED <<argsv, dest_mac, resv, loopv, histv>>
    /\ UNCHANGED <<given_A, netv, epv, machv, wall_off, sidv>>

\* -d <delay>
OptDelay ==
    /\ pc = "getopt"
    /\ \E a \in DelayArgs :
         /\ loop_wait' = atoi(a)
         /\ IF atoi(a) <= 0
            THEN Return(EX_USAGE, "usage_delay")
            ELSE UNCHANGED <<pc, exitv>>
    /\ UNCHANGED <<timeout, use_dns, wol_host, wol_port, wol_direct>>
    /\ UNCHANGED <<argsv, dest_mac, resv, loopv, histv>>
    /\ UNCHANGED newv

\* -D
OptDns ==
    /\ pc = "getopt"
    /\ use_dns' = TRUE
    /\ UNCHANGED <<timeout, loop_wait, wol_host, wol_port, wol_direct>>
    /\ UNCHANGED <<pc, argsv, dest_mac, resv, loopv, histv, exitv>>
    /\ UNCHANGED newv

(* ---------------- positional arguments, lines 221-234 ---------------- *)

\* direct mode that gives way to an address set with -A
ArgumentsAddressWins ==
    /\ pc = "getopt"
    /\ \E n \in ArgCounts :
         IF n # (IF use_dns THEN 2 ELSE 3)
         THEN /\ Return(EX_USAGE, "usage_argc")
              /\ UNCHANGED <<argsv, wol_host>>
         ELSE \E m \in MacArgs, h \in HostArgs, p \in PortArgs :
              /\ mac_a' = (IF use_dns THEN h ELSE m)
              /\ host_a' = h
              /\ port_a' = p
              /\ wol_host' = (IF wol_direct /\ wol_host = DefaultWolHost
                              THEN h ELSE wol_host)
              /\ pc' = "resolve_wol"
              /\ UNCHANGED exitv
    /\ UNCHANGED <<timeout, loop_wait, use_dns, wol_port, wol_direct>>
    /\ UNCHANGED <<dest_mac, resv, loopv, histv>>
    /\ UNCHANGED newv

\* getopt returned -1; n arguments are left
Arguments ==
    /\ pc = "getopt"
    /\ \E n \in ArgCounts :
         IF n # (IF use_dns THEN 2 ELSE 3)
         THEN /\ Return(EX_USAGE, "usage_argc")
              /\ UNCHANGED <<argsv, wol_host>>
         ELSE \E m \in MacArgs, h \in HostArgs, p \in PortArgs :
              /\ mac_a' = (IF use_dns THEN h ELSE m)
              /\ host_a' = h
              /\ port_a' = p
              /\ wol_host' = (IF wol_direct THEN h ELSE wol_host)
              /\ pc' = "resolve_wol"
              /\ UNCHANGED exitv
    /\ UNCHANGED <<timeout, loop_wait, use_dns, wol_port, wol_direct>>
    /\ UNCHANGED <<dest_mac, resv, loopv, histv>>
    /\ UNCHANGED newv

(* ---------------- resolution and MAC address, lines 236-276 ---------------- *)

\* getaddrinfo(wol_host, wol_port, NULL, &wol_ai)
GetaddrinfoWol ==
    /\ pc = "resolve_wol"
    /\ \/ /\ NumericService(wol_port)
          /\ wol_ai' = "held"
          /\ pc' = "get_mac"
          /\ UNCHANGED exitv
       \/ /\ Return(EX_UNAVAILABLE, "resolve_wol")
          /\ UNCHANGED wol_ai
    /\ UNCHANGED <<test_ai, wol_socket, tcp_socket>>
    /\ UNCHANGED <<optv, argsv, dest_mac, loopv, histv>>
    /\ net' = TRUE
    /\ wol_ep' = <<wol_host, wol_port>>
    /\ UNCHANGED <<tcp_failed, test_ep, givenv, machv, wall_off, sidv>>

\* if(use_dns) { status = mac_from_dns(dest_mac, host_a); ... }
MacFromDns ==
    /\ pc = "get_mac"
    /\ use_dns
    /\ \E answer \in DnsAnswers, tail \in MemTails :
         LET r == mac_from_dns(dest_mac, answer, tail)
         IN  /\ dest_mac' = r.addr
             /\ IF r.status # EX_OK
                THEN Return(r.status, "dns")
                ELSE pc' = "check_port" /\ UNCHANGED exitv
    /\ UNCHANGED <<optv, argsv, resv, loopv, histv>>
    /\ net' = TRUE
    /\ UNCHANGED <<tcp_failed, givenv, epv, machv, wall_off, sidv>>

\* else if(!parse_mac(dest_mac, mac_a)) { ... }
ParseMacArg ==
    /\ pc = "get_mac"
    /\ ~use_dns
    /\ \E tail \in MemTails :
         LET r == parse_mac(dest_mac, mac_a \o <<NUL>> \o tail)
         IN  /\ dest_mac' = r.addr
             /\ mac_ok' = r.ok
             /\ mac_hi' = r.hi
             /\ IF ~r.ok
                THEN Return(EX_USAGE, "usage_mac")
                ELSE pc' = "check_port" /\ UNCHANGED exitv
    /\ UNCHANGED <<optv, argsv, resv, loopv, histv>>
    /\ UNCHANGED <<netv, givenv, epv, wall_off, sidv>>

\* if(!valid_port(port_a)) { ... }
CheckPort ==
    /\ pc = "check_port"
    /\ IF ~valid_port(port_a)
       THEN Return(EX_USAGE, "usage_port")
       ELSE pc' = "resolve_test" /\ UNCHANGED exitv
    /\ UNCHANGED <<optv, argsv, dest_mac, resv, loopv, histv>>
    /\ UNCHANGED newv

\* the target resolved only after the UDP socket has been created
GetaddrinfoTestLate ==
    /\ pc = "resolve_test"
    /\ wol_socket' = "open"
    /\ \/ /\ NumericService(port_a)
          /\ test_ai' = "held"
          /\ pc' = "wol_socket"
          /\ UNCHANGED exitv
       \/ /\ Return(EX_UNAVAILABLE, "resolve_test")
          /\ UNCHANGED test_ai
    /\ UNCHANGED <<wol_ai, tcp_socket>>
    /\ UNCHANGED <<optv, argsv, dest_mac, loopv, histv>>
    /\ net' = TRUE
    /\ test_ep' = <<host_a, port_a>>
    /\ UNCHANGED <<tcp_failed, wol_ep, givenv, machv, wall_off, sidv>>

\* getaddrinfo(host_a, port_a, NULL, &test_ai)
GetaddrinfoTest ==
    /\ pc = "resolve_test"
    /\ \/ /\ NumericService(port_a)
          /\ test_ai' = "held"
          /\ pc' = "wol_socket"
          /\ UNCHANGED exitv
       \/ /\ Return(EX_UNAVAILABLE, "resolve_test")
          /\ UNCHANGED test_ai
    /\ UNCHANGED <<wol_ai, wol_socket, tcp_socket>>
    /\ UNCHANGED <<optv, argsv, dest_mac, loopv, histv>>
    /\ net' = TRUE
    /\ test_ep' = <<host_a, port_a>>
    /\ UNCHANGED <<tcp_failed, wol_ep, givenv, machv, wall_off, sidv>>

(* ---------------- sockets, lines 278-298 ---------------- *)

\* socket(wol_ai->ai_family, SOCK_DGRAM, 0)
SocketWol ==
    /\ pc = "wol_socket"
    /\ \/ /\ wol_socket' = "open"
          /\ pc' = "setsockopt"
          /\ UNCHANGED exitv
       \/ /\ Return(EX_OSERR, "socket_wol")
          /\ UNCHANGED wol_socket
    /\ UNCHANGED <<wol_ai, test_ai, tcp_socket>>
    /\ UNCHANGED <<optv, argsv, dest_mac, loopv, histv>>
    /\ net' = TRUE
    /\ UNCHANGED <<tcp_failed, givenv, epv, machv, wall_off, sidv>>

\* setsockopt(wol_socket, SOL_SOCKET, SO_BROADCAST, ...)
Setsockopt ==
    /\ pc = "setsockopt"
    /\ \/ pc' = "tcp_socket" /\ UNCHANGED exitv
       \/ Return(EX_OSERR, "setsockopt")
    /\ UNCHANGED <<optv, argsv, dest_mac, resv, loopv, histv>>
    /\ UNCHANGED newv

\* socket(test_ai->ai_family, SOCK_STREAM, 0)
SocketTcp ==
    /\ pc = "tcp_socket"
    /\ \/ /\ tcp_socket' = "open"
          /\ pc' = "begin"
          /\ UNCHANGED exitv
       \/ /\ Return(EX_OSERR, "socket_tcp")
          /\ UNCHANGED tcp_socket
    /\ UNCHANGED <<wol_ai, test_ai, wol_socket>>
    /\ UNCHANGED <<optv, argsv, dest_mac, loopv, histv>>
    /\ net' = TRUE
    /\ UNCHANGED <<tcp_failed, givenv, epv, machv, wall_off, sidv>>

(* ---------------- the wait loop, lines 300-323 ---------------- *)

\* time_t begin = time(NULL); int status = 2; build_wol_packet(packet, dest_mac);
Begin ==
    /\ pc = "begin"
    /\ \E t \in StartTicks :
         /\ clock' = t
         /\ start_clock' = t
         /\ begin' = time(t)
    /\ status' = 2
    /\ packet' = build_wol_packet(packet, dest_mac)
    /\ pc' = "loop"
    /\ UNCHANGED <<optv, argsv, dest_mac, resv, histv, exitv>>
    /\ UNCHANGED newv

\* the loop condition without the wait-forever case
LoopCondNoForever == begin + timeout > time(clock)

\* the loop condition with the deadline second itself still inside the wait
LoopCondInclusive == timeout = 0 \/ begin + timeout >= time(clock)

\* while(!timeout || begin + timeout > time(NULL))
LoopCond == timeout = 0 \/ begin + timeout > time(clock)

LoopTest ==
    /\ pc = "loop"
    /\ pc' = (IF LoopCond THEN "sendto" ELSE "cleanup")
    /\ UNCHANGED <<optv, argsv, dest_mac, resv, loopv, histv, exitv>>
    /\ UNCHANGED newv

\* sendto whose failure branch lacks the break
SendtoNoBreak ==
    /\ pc = "sendto"
    /\ \/ /\ sends < MaxSends
          /\ sends' = sends + 1
          /\ sent' = sent \cup {packet}
          /\ pc' = "connect"
          /\ UNCHANGED status
       \/ /\ status' = EX_TEMPFAIL
          /\ pc' = "connect"
          /\ UNCHANGED <<sends, sent>>
    /\ UNCHANGED <<begin, packet, clock, start_clock>>
    /\ UNCHANGED <<probes, unreach, sleeps>>
    /\ UNCHANGED <<optv, argsv, dest_mac, resv, exitv>>
    /\ net' = TRUE
    /\ UNCHANGED <<tcp_failed, givenv, epv, machv, wall_off, sidv>>

\* if(sendto(wol_socket, packet, ...) == -1) { status = EX_TEMPFAIL; break; }
Sendto ==
    /\ pc = "sendto"
    /\ \/ /\ sends < MaxSends
          /\ sends' = sends + 1
          /\ sent' = sent \cup {packet}
          /\ pc' = "connect"
          /\ UNCHANGED status
       \/ /\ status' = EX_TEMPFAIL
          /\ pc' = "cleanup"
          /\ UNCHANGED <<sends, sent>>
    /\ UNCHANGED <<begin, packet, clock, start_clock>>
    /\ UNCHANGED <<probes, unreach, sleeps>>
    /\ UNCHANGED <<optv, argsv, dest_mac, resv, exitv>>
    /\ net' = TRUE
    /\ UNCHANGED <<tcp_failed, givenv, epv, machv, wall_off, sidv>>

\* connect whose result is tested the wrong way round
ConnectInverted ==
    /\ pc = "connect"
    /\ \E d \in 0..MaxProbeTicks : clock' = clock + d
    /\ probes' = probes + 1
    /\ \/ /\ pc' = "sleep"
          /\ UNCHANGED <<unreach, status, tcp_failed>>
       \/ /\ unreach' = unreach + 1
          /\ tcp_failed' = TRUE
          /\ status' = 0
          /\ pc' = "cleanup"
    /\ UNCHANGED <<begin, packet, start_clock>>
    /\ UNCHANGED <<sends, sleeps, sent>>
    /\ UNCHANGED <<optv, argsv, dest_mac, resv, exitv>>
    /\ net' = TRUE
    /\ UNCHANGED <<givenv, epv, machv, wall_off, sidv>>

\* a loop that tests the deadline right after a failed connect, without
\* sleeping first
ConnectNoSleep ==
    /\ pc = "connect"
    /\ \E d \in 0..MaxProbeTicks : clock' = clock + d
    /\ probes' = probes + 1
    /\ \/ /\ status' = 0
          /\ pc' = "cleanup"
          /\ UNCHANGED <<unreach, tcp_failed>>
       \/ /\ unreach' = unreach + 1
          /\ tcp_failed' = TRUE
          /\ pc' = (IF timeout # 0 /\ time(clock') >= begin + timeout
                    THEN "cleanup" ELSE "sleep")
          /\ UNCHANGED status
    /\ UNCHANGED <<begin, packet, start_clock>>
    /\ UNCHANGED <<sends, sleeps, sent>>
    /\ UNCHANGED <<optv, argsv, dest_mac, resv, exitv>>
    /\ net' = TRUE
    /\ UNCHANGED <<givenv, epv, machv, wall_off, sidv>>

\* if(connect(tcp_socket, ...) == 0) { status = 0; break; }
\* the call returns after d ticks
Connect ==
    /\ pc = "connect"
    /\ \E d \in 0..MaxProbeTicks : clock' = clock + d
    /\ probes' = probes + 1
    /\ \/ /\ status' = 0
          /\ pc' = "cleanup"
          /\ UNCHANGED <<unreach, tcp_failed>>
       \/ /\ unreach' = unreach + 1
          /\ tcp_failed' = TRUE
          /\ pc' = "sleep"
          /\ UNCHANGED status
    /\ UNCHANGED <<begin, packet, start_clock>>
    /\ UNCHANGED <<sends, sleeps, sent>>
    /\ UNCHANGED <<optv, argsv, dest_mac, resv, exitv>>
    /\ net' = TRUE
    /\ UNCHANGED <<givenv, epv, machv, wall_off, sidv>>

\* a sleep that takes its argument for ticks instead of seconds
SleepTicks ==
    /\ pc = "sleep"
    /\ \E o \in 0..MaxOversleep : clock' = clock + loop_wait + o
    /\ sleeps' = sleeps + 1
    /\ pc' = "loop"
    /\ UNCHANGED <<begin, status, packet, start_clock>>
    /\ UNCHANGED <<sends, probes, unreach, sent>>
    /\ UNCHANGED <<optv, argsv, dest_mac, resv, exitv>>
    /\ UNCHANGED newv

\* a sleep that returns at once
SleepZero ==
    /\ pc = "sleep"
    /\ \E o \in 0..MaxOversleep : clock' = clock + o
    /\ sleeps' = sleeps + 1
    /\ pc' = "loop"
    /\ UNCHANGED <<begin, status, packet, start_clock>>
    /\ UNCHANGED <<sends, probes, unreach, sent>>
    /\ UNCHANGED <<optv, argsv, dest_mac, resv, exitv>>
    /\ UNCHANGED newv

\* sleep(loop_wait): returns no earlier than loop_wait seconds later
Sleep ==
    /\ pc = "sleep"
    /\ \E o \in 0..MaxOversleep : clock' = clock + loop_wait * TicksPerSec + o
    /\ sleeps' = sleeps + 1
    /\ pc' = "loop"
    /\ UNCHANGED <<begin, status, packet, start_clock>>
    /\ UNCHANGED <<sends, probes, unreach, sent>>
    /\ UNCHANGED <<optv, argsv, dest_mac, resv, exitv>>
    /\ UNCHANGED newv

(* ---------------- release and return, lines 325-331 ---------------- *)

ExitReason(st) ==
    CASE st = 0 -> "success" [] st = 2 -> "timeout" [] OTHER -> "send_fail"

\* close(tcp_socket); close(wol_socket); freeaddrinfo(...); return status;
Cleanup ==
    /\ pc = "cleanup"
    /\ tcp_socket' = "closed"
    /\ wol_socket' = "closed"
    /\ test_ai' = "freed"
    /\ wol_ai' = "freed"
    /\ Return(status, ExitReason(status))
    /\ UNCHANGED <<optv, argsv, dest_mac, loopv, histv>>
    /\ UNCHANGED newv

Next ==
    \/ OptUnknown \/ OptTimeout \/ OptForever \/ OptDirect \/ OptAddress
    \/ OptPort \/ OptDelay \/ OptDns \/ Arguments
    \/ GetaddrinfoWol \/ MacFromDns \/ ParseMacArg \/ CheckPort
    \/ GetaddrinfoTest \/ SocketWol \/ Setsockopt \/ SocketTcp
    \/ Begin \/ LoopTest \/ Sendto \/ Connect \/ Sleep \/ Cleanup

Spec == Init /\ [][Next]_vars

\* main runs on one thread that is never held up for ever: each statement of
\* the loop is executed once control has reached it, connect() and sleep()
\* return
SpecFair ==
    /\ Spec
    /\ WF_vars(LoopTest) /\ WF_vars(Sendto) /\ WF_vars(Connect)
    /\ WF_vars(Sleep) /\ WF_vars(Cleanup)

(* ---------------- the system clock being set ---------------- *)

\* largest step of the system clock, in seconds
MaxClockStep == 3

\* the system clock is set forward or back while the loop runs (once a run)
ClockStep ==
    /\ pc \in {"loop", "sendto", "connect", "sleep"}
    /\ wall_off = 0
    /\ \E k \in {0 - MaxClockStep, MaxClockStep} : wall_off' = k
    /\ UNCHANGED <<pc, optv, argsv, dest_mac, resv, loopv, histv, exitv>>
    /\ UNCHANGED <<netv, givenv, epv, machv, sidv>>

NextClock == Next \/ ClockStep

SpecClock == Init /\ [][NextClock]_vars

(* ---------------- types ---------------- *)

TypeOK ==
    /\ pc \in {"getopt", "resolve_wol", "get_mac", "check_port", "resolve_test",
               "wol_socket", "setsockopt", "tcp_socket", "begin", "loop",
               "sendto", "connect", "sleep", "cleanup", "exited"}
    /\ timeout \in Int
    /\ loop_wait \in Int
    /\ wol_ai \in {"none", "held", "freed"}
    /\ test_ai \in {"none", "held", "freed"}
    /\ wol_socket \in {"none", "open", "closed"}
    /\ tcp_socket \in {"none", "open", "closed"}
    /\ sends \in 0..MaxSends

(* ---------------- the wait loop on its own ---------------- *)

\* byte values the hardware address is drawn from
ByteSamples == {0, 170, 255}

HexChars == <<"0", "1", "2", "3", "4", "5", "6", "7", "8", "9",
              "A", "B", "C", "D", "E", "F">>

\* the argument "XX:XX:XX:XX:XX:XX" that parse_mac turns into mac
MacString(mac) ==
    LET pair(b) == <<HexChars[(b \div 16) + 1], HexChars[(b % 16) + 1]>>
    IN  pair(mac[1]) \o <<":">> \o pair(mac[2]) \o <<":">> \o pair(mac[3])
        \o <<":">> \o pair(mac[4]) \o <<":">> \o pair(mac[5]) \o <<":">>
        \o pair(mac[6])

\* main at line 300 with any hardware address in dest_mac: both endpoints
\* resolved, both sockets open, started as  -w 3 -d 1 <MAC> <host> 22
InitPacket ==
    /\ pc = "begin"
    /\ timeout = 3
    /\ loop_wait = 1
    /\ use_dns = FALSE
    /\ wol_host = DefaultWolHost
    /\ wol_port = DefaultWolPort
    /\ wol_direct = FALSE
    /\ host_a \in HostArgs
    /\ port_a = <<"2", "2">>
    /\ dest_mac \in [1..6 -> ByteSamples]
    /\ mac_a = MacString(dest_mac)
    /\ mac_ok = TRUE /\ mac_hi = Len(mac_a)
    /\ net = TRUE /\ tcp_failed = FALSE
    /\ given_A = <<>> /\ given_P = <<>>
    /\ wol_ep = <<wol_host, wol_port>> /\ test_ep = <<host_a, port_a>>
    /\ wall_off = 0
    /\ char_signed = FALSE
    /\ sid_pc = "unused" /\ sid_bin = <<>> /\ sid_len = 0
    /\ sid_ret = <<>> /\ sid_hi = -1
    /\ wol_ai = "held" /\ test_ai = "held"
    /\ wol_socket = "open" /\ tcp_socket = "open"
    /\ begin = 0 /\ status = Uninit
    /\ packet = [k \in 1..WOL_PACKET_SIZE |-> Uninit]
    /\ clock = 0 /\ start_clock = 0
    /\ sends = 0 /\ probes = 0 /\ unreach = 0 /\ sleeps = 0 /\ sent = {}
    /\ exit_status = -1 /\ outcome = "running"

NextPacket == Begin \/ LoopTest \/ Sendto \/ Connect \/ Sleep \/ Cleanup

SpecPacket == InitPacket /\ [][NextPacket]_vars

(* ---------------- properties ---------------- *)

\* the run has reached the wait loop (line 300 has been executed)
InLoopPhase ==
    \/ pc \in {"loop", "sendto", "connect", "sleep", "cleanup"}
    \/ pc = "exited" /\ outcome \in {"success", "timeout", "send_fail"}

\* ticks spent since begin outside the requested sleeping time:
\* the durations of the probes and the overruns of the sleeps
Slack == clock - start_clock - sleeps * loop_wait * TicksPerSec

\* ceil(t / d) for d > 0
Ceil(t, d) == (t + d - 1) \div d

Abs(x) == IF x < 0 THEN 0 - x ELSE x

\* C1: with timeout 0 (wait forever), once the probe has reported Reachable
\* after N reports of Unreachable, exactly N+1 packets have been sent, the
\* loop is left with status 0 and main returns 0; and short of a send failure
\* the loop is left in no other way.
C1_ForeverSendsUntilReachable ==
    /\ (timeout = 0 /\ InLoopPhase /\ probes > unreach) =>
          /\ sends = unreach + 1
          /\ probes = unreach + 1
          /\ status = 0
          /\ pc \in {"cleanup", "exited"}
          /\ pc = "exited" => exit_status = 0
    /\ (timeout = 0 /\ InLoopPhase /\ pc \in {"cleanup", "exited"}
          /\ status # EX_TEMPFAIL) => probes > unreach

C1_Witness ==
    /\ timeout = 0 /\ pc = "exited" /\ exit_status = 0
    /\ unreach = 2 /\ sends = 3

\* C2: whatever the timeout and the retry delay, when the first probe reports
\* Reachable the run is over with status 0, one packet sent and no sleep.
C2_FirstProbeReachable ==
    (InLoopPhase /\ probes = 1 /\ unreach = 0) =>
        /\ status = 0
        /\ sends = 1
        /\ sleeps = 0
        /\ pc \in {"cleanup", "exited"}
        /\ pc = "exited" => (exit_status = 0 /\ outcome = "success")

C2_Witness ==
    /\ pc = "exited" /\ outcome = "success" /\ probes = 1 /\ unreach = 0
    /\ timeout = 10 /\ loop_wait = 2

\* C3 as stated: a run in which every probe reported Unreachable ends with
\* TimedOut after a number of packets within 1 of ceil(T/D).
C3_Original ==
    (pc = "exited" /\ outcome = "timeout") =>
        Abs(sends - Ceil(timeout, loop_wait)) <= 1

\* C3 amended: with T > 0, a run in which every probe reported Unreachable
\* and no send failed ends with TimedOut (status 2) after at least 1 and at
\* most ceil(T/D) packets, and after exactly ceil(T/D) packets when the
\* probes took no time and no sleep overran.
C3_TimedOutSendCount ==
    /\ (pc = "exited" /\ InLoopPhase /\ timeout > 0
          /\ probes = unreach /\ outcome # "send_fail") =>
            (outcome = "timeout" /\ exit_status = 2)
    /\ (pc = "exited" /\ outcome = "timeout") =>
          /\ timeout > 0 /\ loop_wait > 0
          /\ probes = unreach /\ probes = sends
          /\ sends >= 1
          /\ sends <= Ceil(timeout, loop_wait)
          /\ Slack = 0 => sends = Ceil(timeout, loop_wait)

C3_Witness ==
    /\ pc = "exited" /\ outcome = "timeout"
    /\ timeout = 3 /\ loop_wait = 1 /\ sends = 1

\* C4: when the run ends with TimedOut, at least T seconds of real time have
\* passed since the loop's start.
C4_TimedOutNotEarly ==
    (pc = "exited" /\ outcome = "timeout") =>
        clock - start_clock >= timeout * TicksPerSec

\* the scenario of C5: -w 10 -d 5, two probes Unreachable, probes taking no
\* time and both sleeps lasting exactly 5 s
C5_Scenario ==
    /\ InLoopPhase
    /\ timeout = 10 /\ loop_wait = 5
    /\ sleeps = 2 /\ unreach = 2
    /\ Slack = 0

\* C5 as stated: in the scenario the attempt at 10 s elapsed is still made,
\* so the run does not end unless with Success after 3 packets.
C5_Original ==
    (C5_Scenario /\ pc \in {"cleanup", "exited"}) => (status = 0 /\ sends = 3)

\* C5 amended: in the scenario the loop condition fails at 10 s elapsed; the
\* run ends with TimedOut (status 2) after exactly 2 packets and 2 probes,
\* and no third packet is sent.
C5_TimedOutAfterTwo ==
    C5_Scenario =>
        /\ sends = 2 /\ probes = 2
        /\ pc \in {"loop", "cleanup", "exited"}
        /\ pc = "cleanup" => status = 2
        /\ pc = "exited" => (exit_status = 2 /\ outcome = "timeout")
        /\ clock - start_clock = 10 * TicksPerSec

C5_Witness ==
    /\ C5_Scenario /\ pc = "exited" /\ exit_status = 2
    /\ dest_mac = <<170, 187, 204, 221, 238, 255>>

\* C6: once a send has failed the loop is left at once: the step that sets
\* status to EX_TEMPFAIL and every later step make no probe, no sleep and no
\* send, every packet sent before was followed by its probe and its sleep,
\* and main returns EX_TEMPFAIL.
C6_SendFailureEndsRun ==
    [][ status' = EX_TEMPFAIL =>
          /\ pc' \in {"cleanup", "exited"}
          /\ sends' = sends /\ probes' = probes /\ sleeps' = sleeps
          /\ probes' = sends' /\ sleeps' = sends'
          /\ pc' = "exited" =>
               (exit_status' = EX_TEMPFAIL /\ outcome' = "send_fail") ]_vars

C6_Witness ==
    /\ pc = "exited" /\ outcome = "send_fail" /\ exit_status = EX_TEMPFAIL
    /\ sends = 2 /\ probes = 2

\* C7: once built, the packet is 102 bytes: 6 bytes 0xFF, then the 6 bytes of
\* the hardware address 16 times; it is never changed afterwards and every
\* datagram sent is this packet.
C7_PacketLayout ==
    InLoopPhase =>
        /\ Len(packet) = 102
        /\ \A k \in 0..5 : packet[k + 1] = 255
        /\ \A k \in 0..15 : \A j \in 0..5 :
              packet[6 + 6 * k + j + 1] = dest_mac[j + 1]
        /\ \A k \in 1..102 : packet[k] \in 0..255
        /\ sent \subseteq {packet}
        /\ sends > 0 => sent = {packet}

C7_Witness ==
    /\ pc = "exited" /\ sends = 2 /\ sent = {packet}
    /\ dest_mac = <<170, 0, 255, 170, 0, 255>>

\* C8: when main returns because a resolution failed, no socket has been
\* created, no packet sent and no probe made.
C8_ResolutionFailsBeforeSockets ==
    (pc = "exited" /\ outcome \in {"resolve_wol", "resolve_test"}) =>
        /\ exit_status = EX_UNAVAILABLE
        /\ wol_socket = "none" /\ tcp_socket = "none"
        /\ sends = 0 /\ probes = 0 /\ sent = {}

C8_Witness ==
    /\ pc = "exited" /\ outcome = "resolve_test"
    /\ wol_ai = "held"

\* C9: when main has returned, no socket is open and no address list is held.
C9_AllReleased ==
    pc = "exited" =>
        /\ wol_socket # "open" /\ tcp_socket # "open"
        /\ wol_ai # "held" /\ test_ai # "held"

\* C10: status 0 is returned only after a successful connect, status 2 only
\* after the deadline passed without one, and every other return gives a
\* status that is neither 0 nor 2.
C10_ExitStatusDistinguishes ==
    pc = "exited" =>
        /\ exit_status = 0 => (outcome = "success" /\ probes > unreach)
        /\ exit_status = 2 => (outcome = "timeout" /\ probes = unreach)
        /\ outcome \notin {"success", "timeout"} => exit_status \notin {0, 2}


\* the return statements that report a usage error
UsageOutcomes ==
    {"usage_option", "usage_timeout", "usage_delay", "usage_wol_port",
     "usage_argc", "usage_mac", "usage_port"}

\* C11: when main returns on a usage error, no resolver or socket call has
\* been made.
C11_UsageBeforeNetwork ==
    (pc = "exited" /\ outcome \in UsageOutcomes) => ~net

(* ---------------- sid2string (src/sid2string.cpp) ---------------- *)

\* longest SID buffer of the model, in bytes
MaxSidLen == 16

\* An unsigned int is kept as its 32-bit pattern read in two's complement:
\* 0xFFFFFFFF is -1.  Sums and products of the small values met here are
\* the same in both readings; only the comparison differs.

\* unsigned int x = bin[k]: a plain char widened to unsigned int
CharToUInt(b) == IF char_signed /\ b >= 128 THEN b - 256 ELSE b

\* a < b for two unsigned ints
ULess(a, b) ==
    IF a >= 0
    THEN b < 0 \/ a < b
    ELSE b < 0 /\ a < b

\* index of bin past every buffer
FarIndex == 2147483647

\* from_endian(dest, src, 4, fe): the four bytes at 0-based offset off of
\* bin as a 32-bit word, most significant byte first; fe = 1 when the source
\* is big-endian, 0 when it is little-endian
from_endian(bin, off, fe) ==
    IF fe = 1
    THEN <<bin[off + 1], bin[off + 2], bin[off + 3], bin[off + 4]>>
    ELSE <<bin[off + 4], bin[off + 3], bin[off + 2], bin[off + 1]>>

RECURSIVE sid_subauths(_, _, _)
sid_subauths(bin, n, dashes) ==
    IF n < dashes
    THEN <<from_endian(bin, 8 + n * 4, 0)>> \o sid_subauths(bin, n + 1, dashes)
    ELSE <<>>

\* sid2string(bin, len).  ret is the text as its printed fields ("S", the
\* revision, the authority word, the sub-authority words), <<>> for the empty
\* string; hi is the highest index of bin read, -1 when none was;
\* oob tells that the loop reads bin at an index >= len.
sid2string(bin, len) ==
    IF len < 8
    THEN [ret |-> <<>>, hi |-> -1, oob |-> FALSE]
    ELSE
      LET revision == CharToUInt(bin[1])
          dashes   == CharToUInt(bin[2])
      IN  IF ULess(len, 8 + (4 * dashes))
          THEN [ret |-> <<>>, hi |-> 1, oob |-> FALSE]
          ELSE IF revision # 1
          THEN [ret |-> <<>>, hi |-> 7, oob |-> FALSE]
          ELSE IF dashes < 0 \/ 8 + 4 * dashes > len
          THEN [ret |-> <<>>,
                hi  |-> IF dashes < 0 THEN FarIndex ELSE 7 + 4 * dashes,
                oob |-> TRUE]
          ELSE [ret |-> <<"S", revision, from_endian(bin, 4, 1)>>
                          \o sid_subauths(bin, 0, dashes),
                hi  |-> 7 + 4 * dashes,
                oob |-> FALSE]

\* values of the revision byte bin[0]
RevisionBytes == {0, 1, 2, 129}

\* values of the sub-authority count byte bin[1]
CountBytes == {0, 1, 2, 3, 128, 253, 254, 255}

\* values the remaining bytes are filled with
FillBytes == {5, 200}

InitSid ==
    /\ pc = "getopt"
    /\ timeout = DefaultTimeout
    /\ loop_wait = DefaultLoopWait
    /\ use_dns = FALSE
    /\ wol_host = DefaultWolHost
    /\ wol_port = DefaultWolPort
    /\ wol_direct = FALSE
    /\ mac_a = <<>> /\ host_a = <<>> /\ port_a = <<>>
    /\ dest_mac = [k \in 1..6 |-> Uninit]
    /\ wol_ai = "none" /\ test_ai = "none"
    /\ wol_socket = "none" /\ tcp_socket = "none"
    /\ begin = 0 /\ status = Uninit
    /\ packet = [k \in 1..WOL_PACKET_SIZE |-> Uninit]
    /\ clock = 0 /\ start_clock = 0
    /\ sends = 0 /\ probes = 0 /\ unreach = 0 /\ sleeps = 0 /\ sent = {}
    /\ exit_status = -1 /\ outcome = "running"
    /\ net = FALSE /\ tcp_failed = FALSE
    /\ given_A = <<>> /\ given_P = <<>>
    /\ wol_ep = <<>> /\ test_ep = <<>>
    /\ mac_ok = FALSE /\ mac_hi = 0
    /\ wall_off = 0
    /\ char_signed \in BOOLEAN
    /\ sid_pc = "call"
    /\ sid_len \in 0..MaxSidLen
    /\ \E r \in RevisionBytes, c \in CountBytes, f \in FillBytes :
         sid_bin = [k \in 1..sid_len |->
                      IF k = 1 THEN r ELSE IF k = 2 THEN c ELSE f]
    /\ sid_ret = <<>> /\ sid_hi = -1

\* one call of sid2string; a read outside bin is undefined behaviour: the
\* call may crash or return any text
Sid2String ==
    /\ sid_pc = "call"
    /\ LET r == sid2string(sid_bin, sid_len)
       IN  /\ sid_hi' = r.hi
           /\ IF r.oob
              THEN \/ sid_pc' = "crashed" /\ sid_ret' = <<>>
                   \/ sid_pc' = "returned" /\ sid_ret' \in {<<>>, <<"S", "garbage">>}
              ELSE sid_pc' = "returned" /\ sid_ret' = r.ret
    /\ UNCHANGED <<char_signed, sid_bin, sid_len>>
    /\ UNCHANGED <<pc, optv, argsv, dest_mac, resv, loopv, histv, exitv>>
    /\ UNCHANGED <<netv, givenv, epv, machv, wall_off>>

SpecSid == InitSid /\ [][Sid2String]_vars

\* bin, len is not a valid SID: too short for the header, a revision other
\* than 1, or too short for the c sub-authorities its count byte announces
InvalidSid(bin, len) ==
    \/ len < 8
    \/ bin[1] # 1
    \/ len < 8 + 4 * bin[2]

\* C12: sid2string returns the empty string for every invalid SID and never
\* reads bin at an index >= len.
C12_InvalidSidEmpty ==
    sid_pc \in {"returned", "crashed"} =>
        /\ InvalidSid(sid_bin, sid_len) =>
              (sid_pc = "returned" /\ sid_ret = <<>>)
        /\ sid_hi < sid_len


\* the deadline begin + timeout on the real-time clock, in ticks
DeadlineTicks == (begin + timeout) * TicksPerSec

\* C13 as stated: once the deadline has passed, the run does not sleep again.
C13_Original ==
    [][ (InLoopPhase /\ timeout > 0 /\ time(clock) >= begin + timeout) =>
          sleeps' = sleeps ]_vars

\* C13 amended: a probe that reports Unreachable is always followed by the
\* sleep, whether or not the deadline has passed; the deadline is tested
\* only after it.  The run then ends with TimedOut (status 2) without a
\* further send or probe, and it does so less than the time of one probe
\* plus one sleep after the deadline.
C13_SleepsThenTimesOut ==
    [][ /\ (pc = "connect" /\ unreach' = unreach + 1) => pc' = "sleep"
        /\ pc = "sleep" => (sleeps' = sleeps + 1 /\ pc' = "loop")
        /\ (pc = "loop" /\ pc' = "cleanup") =>
              /\ status = 2 /\ timeout > 0
              /\ sleeps = sends /\ probes = sends /\ unreach = sends
              /\ clock >= DeadlineTicks
              /\ clock - DeadlineTicks <
                   MaxProbeTicks + loop_wait * TicksPerSec + MaxOversleep ]_vars

\* a run that timed out a whole sleep or more after the deadline: the
\* deadline had passed when the last sleep began
C13_Witness ==
    /\ pc = "exited" /\ outcome = "timeout"
    /\ clock - DeadlineTicks >= loop_wait * TicksPerSec + MaxOversleep

\* C14: with timeout 0 the run never ends with TimedOut, however long it has
\* lasted: the loop is left with status 0 or EX_TEMPFAIL only.
C14_ForeverNeverTimesOut ==
    (timeout = 0 /\ InLoopPhase) =>
        /\ outcome # "timeout"
        /\ pc = "loop" => LoopCond
        /\ pc \in {"cleanup", "exited"} => status \in {0, EX_TEMPFAIL}
        /\ pc = "exited" => exit_status \in {0, EX_TEMPFAIL}

C14_Witness ==
    /\ timeout = 0 /\ pc = "sendto" /\ sleeps = 3
    /\ clock - start_clock > 3 * loop_wait * TicksPerSec


\* passes of the loop body begun so far
Iterations ==
    sends + (IF pc = "sendto" \/ status = EX_TEMPFAIL THEN 1 ELSE 0)

\* C15: with T > 0 and D > 0 the loop body is begun at most ceil(T/D) times,
\* and a run that has reached the loop ends with Success, TimedOut or a send
\* failure.
C15_LoopTerminates ==
    /\ []((timeout > 0 /\ InLoopPhase) =>
            (loop_wait > 0 /\ Iterations <= Ceil(timeout, loop_wait)))
    /\ (pc = "loop" /\ timeout > 0 /\ Ceil(timeout, loop_wait) <= MaxSends)
         ~> (pc = "exited" /\ outcome \in {"success", "timeout", "send_fail"})

C15_Witness ==
    /\ pc = "exited" /\ outcome = "timeout"
    /\ timeout = 3 /\ loop_wait = 1 /\ sends = 3


\* C16: every connect is made on a socket that has had no failed connect.
C16_FreshSocketEachProbe ==
    [][ probes' = probes + 1 => ~tcp_failed ]_vars

\* C17: granted the one-second grain of the clock readings, a run in which
\* the system clock is set ends with TimedOut only after T of real time, and
\* begins no pass of the loop once T of real time has gone by.
C17_MonotonicDeadline ==
    /\ (pc = "exited" /\ outcome = "timeout") =>
          clock - start_clock > (timeout - 1) * TicksPerSec
    /\ (pc = "sendto" /\ timeout > 0) =>
          clock - start_clock < timeout * TicksPerSec

\* the host the wake packets are to go to, from the options as given
ExpectedWolHost ==
    IF wol_direct THEN host_a
    ELSE IF given_A # <<>> THEN given_A
    ELSE <<"2", "5", "5", ".", "2", "5", "5", ".", "2", "5", "5", ".", "2", "5", "5">>

\* the port the wake packets are to go to, from the options as given
ExpectedWolPort == IF given_P # <<>> THEN given_P ELSE <<"9">>

\* C18: the wake endpoint resolved is the target host when -u was given
\* (with or without -A, in either order), else the -A address, else
\* 255.255.255.255; its port is the -P value, else 9; the endpoint probed is
\* the target host and port.
C18_WakeEndpoint ==
    /\ wol_ep # <<>> => wol_ep = <<ExpectedWolHost, ExpectedWolPort>>
    /\ test_ep # <<>> => test_ep = <<host_a, port_a>>
    /\ wol_ai # "none" => wol_ep # <<>>
    /\ test_ai # "none" => test_ep # <<>>

C18_Witness ==
    /\ pc = "exited" /\ outcome = "success"
    /\ wol_direct /\ given_A # <<>> /\ given_P = <<"7">>
    /\ wol_ep = <<host_a, <<"7">>>>

\* s from 1-based position p on is g groups of one or two hexadecimal
\* digits, each optionally preceded by one of ':', '-', '.', and nothing else
RECURSIVE GroupsFrom(_, _, _)
GroupsFrom(s, p, g) ==
    IF g = 0
    THEN p = Len(s) + 1
    ELSE \E sl \in {0, 1}, dl \in {1, 2} :
           /\ p + sl + dl - 1 <= Len(s)
           /\ sl = 1 => s[p] \in {":", "-", "."}
           /\ \A k \in 0..(dl - 1) : isxdigit(s[p + sl + k])
           /\ GroupsFrom(s, p + sl + dl, g - 1)

\* C19: parse_mac(dest_mac, mac_a) reads no character past the terminator of
\* mac_a and returns true only for six well-formed groups.
C19_ParseMacStrict ==
    /\ mac_hi <= Len(mac_a)
    /\ mac_ok => GroupsFrom(mac_a, 1, 6)

====
